---- MODULE Spec2Model ----
(***************************************************************************)
(* MoonTV live television: the playback session of the live player page    *)
(* (LivePlayPage: source fallback, engine lifecycle) and the catalog cache *)
(* of the live API route (getChannelsData / handleRefreshChannels).        *)
(***************************************************************************)
EXTENDS Integers, Sequences, FiniteSets, TLC

(***************************************************************************)
(* Bounds of the model.                                                    *)
(***************************************************************************)
\* attaches (loadVideo calls that reach the engine or the media element) per session
MaxAttach == 4
\* getChannelsData calls
MaxCalls == 4
\* clock steps
MaxTicks == 2
\* rewrites of live.json
MaxWrites == 1
\* lines of a text given to a parser
MaxLines == 4

Null == "null"
NoChannel == "none"

(***************************************************************************)
(* Stream URLs.  A URL is kept as the parts `new URL(url)` splits it into: *)
(* host, pathname (a sequence of text pieces) and search.  `parses` is     *)
(* FALSE for text that starts with a scheme but that `new URL` rejects.    *)
(* `prefix` is "" for a URL of a catalog and the tunnel prefix for a       *)
(* rewritten one (whose scheme is then "").                                *)
(***************************************************************************)
Url(scheme, host, path, search, parses) ==
    [prefix |-> "", scheme |-> scheme, host |-> host, path |-> path,
     search |-> search, parses |-> parses]

\* the candidate URL lists of the channels the page can be opened with
Channels ==
    [ chA |-> << Url("https", "a.b", <<"/1", ".m3u8">>, "?d=1", TRUE),
                 Url("http",  "a.b", <<"/2", ".flv">>,  "",     TRUE),
                 Url("https", "c.d", <<"/3", ".m3u8">>, "",     TRUE) >>,
      chB |-> << Url("http",  "e.f", <<"/4", ".m3u8">>, "",     TRUE),
                 Url("https", "",    <<"/5", ".m3u8">>, "",     FALSE) >>,
      chC |-> << Url("https", "g.h", <<"/6", ".mp4">>,  "",     TRUE) >> ]

ChannelIds == DOMAIN Channels

\* channel.urls[i] for an index past the end of the list
Undefined ==
    [prefix |-> "", scheme |-> "undefined", host |-> "", path |-> <<>>,
     search |-> "", parses |-> FALSE]
\* the outcome of a rewrite that raises (new URL(url) or url.startsWith)
Throw ==
    [prefix |-> "throw", scheme |-> "", host |-> "", path |-> <<>>,
     search |-> "", parses |-> FALSE]

\* the messages setError is called with
ErrInvalidParams == "Invalid channel parameters"
ErrPlayFailed == "play failed, try another source"
ErrHlsFatal == "playback error"
ErrNativeLoad == "failed to load the video stream"
ErrInit == "failed to initialise the player"

VARIABLES
    pageProtocol,     \* window.location.protocol
    hlsSupported,     \* window.Hls?.isSupported()
    mounted,          \* the LivePlayPage component is mounted
    channel,          \* useState channel: NoChannel or a channel id
    currentUrlIndex,  \* useState currentUrlIndex (0-based)
    streamStatus,     \* useState streamStatus
    error,            \* useState error
    isLoading,        \* useState isLoading
    videoHls,         \* videoRef.current.hls: 0 or the id of an attach
    media,            \* the attach whose source the media element holds, 0 if none
    nativeListeners,  \* loadeddata/error listeners are registered on the element
    attaches,         \* every attach of the session, in order of construction
    playPending,      \* the attach whose video.play() promise is pending, 0 if none
    statusSets,       \* the setStreamStatus calls of the last step, in order
    attachLog,        \* the attaches the last step began, in order
    lastOp            \* the operation of the last step

sessVars == << pageProtocol, hlsSupported, mounted, channel, currentUrlIndex,
               streamStatus, error, isLoading, videoHls, media, nativeListeners,
               attaches, playPending, statusSets, attachLog,
               lastOp >>

VARIABLES
    now,              \* Date.now()
    ticks,            \* the clock steps taken
    file,             \* the content of live.json
    writes,           \* the rewrites of live.json made
    channelsCache,    \* let channelsCache: Null or a snapshot
    lastCacheUpdate,  \* let lastCacheUpdate
    inflight,         \* the getChannelsData calls that await readFile, each with
                      \* what its readFile read, "pending" until it has read
    calls,            \* the getChannelsData calls made
    reads,            \* the readFile calls made
    lastReturn,       \* what the getChannelsData call that returned last returned
    cacheOp,          \* the last call or completion of getChannelsData
    served,           \* the snapshot the last cache hit returned, until a refresh
    refreshed,        \* the snapshot the last refresh loaded, until the next refresh
    lastGood,         \* the snapshot of the last load that succeeded
    cachedChannels,   \* category.channels of the object channelsCache holds, as it is now
    queries           \* the handleGetChannels calls that await getChannelsData

cacheVars == << now, ticks, file, writes, channelsCache, lastCacheUpdate, inflight, calls,
                reads, lastReturn, cacheOp, served, refreshed, lastGood,
                cachedChannels, queries >>

VARIABLES
    target,           \* the catalog URL being rewritten, NoUrl if none
    listed,           \* what processChannelUrls made of it, NoUrl if it did not run
    played,           \* what processUrl of the player made of it, NoUrl if it did not run
    request,          \* the request the gateway handles, NoRequest if none
    upstream,         \* the fetch the gateway awaits, NoFetch if none
    answer,           \* what the fetch came to, NoAnswer if nothing yet
    response,         \* the response of the gateway, NoResponse if none
    proxyOp           \* the operation of the last step

proxyVars ==
    << target, listed, played, request, upstream, answer, response, proxyOp >>

VARIABLES
    content,          \* the text given to a parser: its lines, each a sequence of pieces
    parsed,           \* what the parser or detector returned, kind "none" if none ran
    parseOp           \* the operation of the last step

parseVars == << content, parsed, parseOp >>

vars == << sessVars, cacheVars, proxyVars, parseVars >>

(***************************************************************************)
(* processUrl of the player page.                                          *)
(***************************************************************************)
StartsWith(url, scheme) == url.prefix = "" /\ url.scheme = scheme

Includes(url, piece) == \E k \in 1..Len(url.path) : url.path[k] = piece

\* urlObj.host: lower case, without the default port of the scheme
HostOf(scheme, host) ==
    IF host = "A.B" THEN "a.b"
    ELSE IF scheme = "https" /\ host = "a.b:443" THEN "a.b"
    ELSE IF scheme = "http" /\ host = "e.f:80" THEN "e.f"
    ELSE host

\* new URL(url) of a URL that parses: host, pathname ("/" when the text has
\* no path) and search
NewURL(url) ==
    [host |-> HostOf(url.scheme, url.host),
     pathname |-> IF url.path = <<>> THEN << "/" >> ELSE url.path,
     search |-> url.search]

\* `${prefix}/${host}${pathname}${search}`
Tunnel(prefix, url) ==
    LET urlObj == NewURL(url)
    IN  [prefix |-> prefix, scheme |-> "", host |-> urlObj.host,
         path |-> urlObj.pathname, search |-> urlObj.search, parses |-> TRUE]

processUrlSecureOnly(url) ==
    IF url = Undefined THEN Throw
    ELSE IF pageProtocol = "http:" /\ StartsWith(url, "https")
         THEN (IF url.parses THEN Tunnel("/proxy", url) ELSE Throw)
    ELSE url

processUrl(url) ==
    IF url = Undefined THEN Throw
    ELSE IF pageProtocol = "http:" /\ StartsWith(url, "https")
         THEN (IF url.parses THEN Tunnel("/proxy", url) ELSE Throw)
    ELSE IF StartsWith(url, "http") /\ pageProtocol = "https:"
         THEN (IF url.parses THEN Tunnel("/httpproxy", url) ELSE Throw)
    ELSE url

(***************************************************************************)
(* The mutable state a handler works on, as one record, so that a handler  *)
(* that calls loadVideo more than once composes the calls.                 *)
(***************************************************************************)
Sess ==
    [isLoading |-> isLoading, error |-> error, streamStatus |-> streamStatus,
     videoHls |-> videoHls, media |-> media, nativeListeners |-> nativeListeners,
     attaches |-> attaches, statusSets |-> <<>>, attachLog |-> <<>>]

LiveEngines(as) == {a \in 1..Len(as) : as[a].kind = "hls" /\ as[a].live}

\* an attach that can no longer signal: its engine is destroyed or its source
\* replaced, and no play() promise of it is pending
Spent == [kind |-> "spent", live |-> FALSE, phase |-> "new", superseded |-> "no"]

Forget(as, m, pending) ==
    [a \in 1..Len(as) |->
        IF (as[a].kind = "hls" /\ as[a].live) \/ a = m \/ a = pending
        THEN as[a] ELSE Spent]

Commit(st) ==
    /\ isLoading' = st.isLoading
    /\ error' = st.error
    /\ streamStatus' = st.streamStatus
    /\ videoHls' = st.videoHls
    /\ media' = st.media
    /\ nativeListeners' = st.nativeListeners
    /\ attaches' = Forget(st.attaches, st.media, playPending)
    /\ UNCHANGED playPending
    /\ statusSets' = st.statusSets
    /\ attachLog' = st.attachLog

setStreamStatus(st, v) ==
    [st EXCEPT !.streamStatus = v, !.statusSets = Append(@, v)]

\* every earlier attach is superseded by the operation that loads again:
\* "user" by retry or selectSource, "play" by a new channel
Supersede(as, op) ==
    [a \in 1..Len(as) |->
        IF as[a].kind = "spent" THEN as[a]
        ELSE IF op # "play" THEN [as[a] EXCEPT !.superseded = "user"]
        ELSE IF as[a].superseded = "no" THEN [as[a] EXCEPT !.superseded = "play"]
        ELSE as[a]]

NewAttach(kind) ==
    [kind |-> kind, live |-> (kind = "hls"), phase |-> "new", superseded |-> "no"]

\* what the log keeps of an attach: the operation, the candidate index and URL
\* it loads, and the engines of the session that are live when it begins
Begun(st, op, idx, url) ==
    [st EXCEPT !.attachLog = Append(@, [op |-> op, idx |-> idx, url |-> url,
                    liveBefore |-> Cardinality(LiveEngines(st.attaches))])]

\* loadVideo with the channel and index of the closure that runs it
loadVideo(st, ch, idx, op) ==
    LET s1 == setStreamStatus([st EXCEPT !.isLoading = TRUE, !.error = Null,
                                         !.attaches = Supersede(@, op)],
                              "connecting")
        urls == Channels[ch]
        originalUrl == IF idx + 1 <= Len(urls) THEN urls[idx + 1] ELSE Undefined
        url == processUrl(originalUrl)
        id == Len(s1.attaches) + 1
    IN  IF url = Throw
        THEN setStreamStatus([s1 EXCEPT !.error = ErrInit, !.isLoading = FALSE],
                             "error")
        ELSE IF Includes(url, ".m3u8") /\ hlsSupported
        THEN [Begun(s1, op, idx, url) EXCEPT
                        !.attaches = Append(@, NewAttach("hls")),
                        !.videoHls = id, !.media = id]
        ELSE [Begun(s1, op, idx, url) EXCEPT
                        !.attaches = Append(@, NewAttach("native")),
                        !.media = id, !.nativeListeners = TRUE]

\* if (videoRef.current?.hls) { hls.destroy(); videoRef.current.hls = null }
DestroyHls(st) ==
    IF st.videoHls = 0 THEN st
    ELSE [st EXCEPT !.attaches[st.videoHls].live = FALSE,
                    !.media = IF @ = st.videoHls THEN 0 ELSE @,
                    !.videoHls = 0]

(***************************************************************************)
(* The playback session: LivePlayPage.                                     *)
(***************************************************************************)
SessInit ==
    /\ mounted = TRUE
    /\ channel = NoChannel
    /\ currentUrlIndex = 0
    /\ streamStatus = "idle"
    /\ error = Null
    /\ isLoading = TRUE
    /\ videoHls = 0
    /\ media = 0
    /\ nativeListeners = FALSE
    /\ attaches = <<>>
    /\ playPending = 0
    /\ statusSets = <<>>
    /\ attachLog = <<>>
    /\ lastOp = "init"

\* a signal handler: what it sets, and nothing else
Signal(op, loading, err, status, as, pending) ==
    /\ isLoading' = loading
    /\ error' = err
    /\ streamStatus' = status
    /\ statusSets' = IF op \in {"hlsNonFatal", "playStarted"} THEN <<>> ELSE <<status>>
    /\ attaches' = Forget(as, media, pending)
    /\ playPending' = pending
    /\ attachLog' = <<>>
    /\ lastOp' = op
    /\ UNCHANGED << pageProtocol, hlsSupported, mounted, channel, currentUrlIndex,
                    videoHls, media, nativeListeners >>
    /\ UNCHANGED << cacheVars, proxyVars, parseVars >>

\* the URL parameter effect with parameters of channel c, then the load effect
PlayChannel(c) ==
    /\ mounted
    /\ LET st == loadVideo(Sess, c, currentUrlIndex, "play")
       IN  /\ Len(st.attaches) <= MaxAttach
           /\ Commit(st)
    /\ channel' = c
    /\ lastOp' = "play"
    /\ UNCHANGED << pageProtocol, hlsSupported, mounted, currentUrlIndex >>
    /\ UNCHANGED << cacheVars, proxyVars, parseVars >>

\* the URL parameter effect with id, name or urls missing
PlayInvalid ==
    /\ mounted
    /\ error' = ErrInvalidParams
    /\ isLoading' = FALSE
    /\ statusSets' = <<>>
    /\ attachLog' = <<>>
    /\ lastOp' = "invalid"
    /\ UNCHANGED << pageProtocol, hlsSupported, mounted, channel, currentUrlIndex,
                    streamStatus, videoHls, media, nativeListeners, attaches,
                    playPending >>
    /\ UNCHANGED << cacheVars, proxyVars, parseVars >>

handleRetry ==
    /\ mounted
    /\ channel # NoChannel
    /\ LET s1 == DestroyHls(Sess)
           n == Len(Channels[channel])
           next == IF currentUrlIndex < n - 1 THEN currentUrlIndex + 1 ELSE 0
           \* the last index calls loadVideo itself, with the index of its closure
           s2 == IF currentUrlIndex < n - 1 THEN s1
                 ELSE loadVideo(s1, channel, currentUrlIndex, "retry")
           \* the load effect runs when currentUrlIndex has changed
           s3 == IF next # currentUrlIndex
                 THEN loadVideo(s2, channel, next, "retry") ELSE s2
       IN  /\ Len(s3.attaches) <= MaxAttach
           /\ Commit(s3)
           /\ currentUrlIndex' = next
    /\ lastOp' = "retry"
    /\ UNCHANGED << pageProtocol, hlsSupported, mounted, channel >>
    /\ UNCHANGED << cacheVars, proxyVars, parseVars >>

handleSourceSelect(index) ==
    /\ mounted
    /\ channel # NoChannel
    /\ index \in 0..(Len(Channels[channel]) - 1)
    /\ IF index = currentUrlIndex
       THEN /\ statusSets' = <<>>
            /\ attachLog' = <<>>
            /\ UNCHANGED << currentUrlIndex, isLoading, error, streamStatus, videoHls,
                            media, nativeListeners, attaches, playPending >>
       ELSE LET st == loadVideo(DestroyHls(Sess), channel, index, "select")
            IN  /\ Len(st.attaches) <= MaxAttach
                /\ Commit(st)
                /\ currentUrlIndex' = index
    /\ lastOp' = "select"
    /\ UNCHANGED << pageProtocol, hlsSupported, mounted, channel >>
    /\ UNCHANGED << cacheVars, proxyVars, parseVars >>

\* hls.on(MANIFEST_PARSED) of attach a; its video.play() is then pending
HlsManifestParsed(a) ==
    /\ mounted
    /\ a \in LiveEngines(attaches)
    /\ attaches[a].phase = "new"
    /\ Signal("manifestParsed", FALSE, error, "connected",
              [attaches EXCEPT ![a].phase = "parsed"], a)

HlsErrorUnguarded(a, fatal) ==
    /\ mounted
    /\ a \in LiveEngines(attaches)
    /\ attaches[a].phase # "failed"
    /\ Signal(IF fatal THEN "hlsFatal" ELSE "hlsNonFatal", FALSE, ErrHlsFatal, "error",
              [attaches EXCEPT ![a].phase = "failed"], playPending)

\* hls.on(ERROR) of attach a
HlsError(a, fatal) ==
    /\ mounted
    /\ a \in LiveEngines(attaches)
    /\ attaches[a].phase # "failed"
    /\ IF fatal
       THEN Signal("hlsFatal", FALSE, ErrHlsFatal, "error",
                   [attaches EXCEPT ![a].phase = "failed"], playPending)
       ELSE Signal("hlsNonFatal", isLoading, error, streamStatus, attaches,
                   playPending)

\* the element's loadeddata event, for the source it holds
VideoLoadedData ==
    /\ mounted
    /\ nativeListeners
    /\ media # 0
    /\ attaches[media].phase = (IF attaches[media].kind = "hls" THEN "parsed" ELSE "new")
    /\ Signal("loadeddata", FALSE, error, "connected",
              [attaches EXCEPT ![media].phase = "loaded"], media)

\* the element's error event, for the source it holds
VideoError ==
    /\ mounted
    /\ nativeListeners
    /\ media # 0
    /\ attaches[media].phase # "failed"
    /\ Signal("videoError", FALSE, ErrNativeLoad, "error",
              [attaches EXCEPT ![media].phase = "failed"], playPending)

\* video.play().catch(...): the pending promise is rejected
PlayRejected ==
    /\ mounted
    /\ playPending # 0
    /\ Signal("playRejected", isLoading, ErrPlayFailed, "error", attaches, 0)

\* the pending video.play() promise resolves
PlayStarted ==
    /\ mounted
    /\ playPending # 0
    /\ Signal("playStarted", isLoading, error, streamStatus, attaches, 0)

\* the component unmounts: the only cleanup clears the controls timeout
Unmount ==
    /\ mounted
    /\ mounted' = FALSE
    /\ statusSets' = <<>>
    /\ attachLog' = <<>>
    /\ lastOp' = "unmount"
    /\ UNCHANGED << pageProtocol, hlsSupported, channel, currentUrlIndex, isLoading,
                    error, streamStatus, videoHls, media, nativeListeners, attaches,
                    playPending >>
    /\ UNCHANGED << cacheVars, proxyVars, parseVars >>

SessNext ==
    \/ \E c \in ChannelIds : PlayChannel(c)
    \/ PlayInvalid
    \/ handleRetry
    \/ \E i \in 0..2 : handleSourceSelect(i)
    \/ \E a \in 1..MaxAttach : HlsManifestParsed(a)
    \/ \E a \in 1..MaxAttach, fatal \in BOOLEAN : HlsError(a, fatal)
    \/ VideoLoadedData
    \/ VideoError
    \/ PlayRejected
    \/ PlayStarted
    \/ Unmount

(***************************************************************************)
(* The catalog cache of the live API route.                                *)
(***************************************************************************)
CACHE_TTL == 5 * 60 * 1000

\* Date.now() when the server starts: later than one CACHE_TTL after the epoch
StartTime == 2 * CACHE_TTL

\* live.json: two catalogs, a document without "categories", and a file that
\* cannot be read or parsed
Contents == {"v1", "v2", "nocats", "broken"}

\* a snapshot: the call that loaded it, that call's kind, the Date.now() that
\* call captured, and the data read.
\* null, and the [] that getChannelsData returns when nothing was ever loaded
NullSnapshot == [by |-> 0, kind |-> "none", at |-> 0, data |-> "null"]
EmptySnapshot == [by |-> 0, kind |-> "none", at |-> 0, data |-> "empty"]
NoReturn == [call |-> 0, hit |-> FALSE, snap |-> NullSnapshot]

\* the catalogs live.json can hold: one category, its channels in file order.
\* name and category are the positions of the texts in localeCompare's order
NewsCategory == "news"
NoCategory == "none"

Channel(name, quality) == [name |-> name, category |-> 1, quality |-> quality]

Catalog(data) ==
    IF data = "v1" THEN << Channel(2, "SD"), Channel(1, "none"), Channel(3, "FHD") >>
    ELSE IF data = "v2" THEN << Channel(2, "HD"), Channel(1, "FHD") >>
    ELSE <<>>

\* const qualityOrder = { FHD: 3, HD: 2, SD: 1 }, read as qualityOrder[q || 'SD'] || 0
qualityOrder(q) ==
    IF q = "FHD" THEN 3 ELSE IF q = "HD" THEN 2 ELSE IF q \in {"SD", "none"} THEN 1 ELSE 0

\* the comparator handleGetChannels gives to sort
Compare(sort, a, b) ==
    IF sort = "name" THEN a.name - b.name
    ELSE IF sort = "category" THEN a.category - b.category
    ELSE IF sort = "quality" THEN qualityOrder(b.quality) - qualityOrder(a.quality)
    ELSE 0

\* x put into the sorted s, after the elements it does not precede
InsertSorted(sort, s, x) ==
    LET after == {k \in 1..Len(s) : Compare(sort, s[k], x) > 0}
        at == IF after = {} THEN Len(s) + 1
              ELSE CHOOSE k \in after : \A j \in after : k <= j
    IN  SubSeq(s, 1, at - 1) \o << x >> \o SubSeq(s, at, Len(s))

RECURSIVE SortChannels(_, _)
\* Array.prototype.sort with that comparator: stable
SortChannels(sort, s) ==
    IF s = <<>> THEN s
    ELSE InsertSorted(sort, SortChannels(sort, SubSeq(s, 1, Len(s) - 1)), s[Len(s)])

\* allChannels.sort(...) of handleGetChannels: with a category filter that
\* finds the category, allChannels is the category's own channels array
SortInPlace(categoryId, sort, channels) ==
    IF categoryId = NewsCategory /\ channels # <<>>
    THEN SortChannels(sort, channels) ELSE channels

CacheInit ==
    /\ now = StartTime
    /\ ticks = 0
    /\ writes = 0
    /\ channelsCache = NullSnapshot
    /\ lastCacheUpdate = 0
    /\ inflight = {}
    /\ calls = 0
    /\ reads = 0
    /\ lastReturn = NoReturn
    /\ cacheOp = "init"
    /\ served = NullSnapshot
    /\ refreshed = NullSnapshot
    /\ lastGood = NullSnapshot
    /\ cachedChannels = <<>>
    /\ queries = {}

\* if (channelsCache && now - lastCacheUpdate < CACHE_TTL)
CacheValid(cache, last, t) == cache # NullSnapshot /\ t - last < CACHE_TTL

\* handleRefreshChannels: channelsCache = null; lastCacheUpdate = 0
Invalidated == [cache |-> NullSnapshot, last |-> 0]

Kept == [cache |-> channelsCache, last |-> lastCacheUpdate]

\* getChannelsData up to its await, after `before` has run
getChannelsData(kind, before) ==
    /\ calls < MaxCalls
    /\ calls' = calls + 1
    /\ IF CacheValid(before.cache, before.last, now)
       THEN /\ lastReturn' = [call |-> calls + 1, hit |-> TRUE, snap |-> before.cache]
            /\ served' = before.cache
            /\ UNCHANGED << inflight, reads >>
       ELSE /\ inflight' = inflight \cup {[id |-> calls + 1, kind |-> kind, now |-> now,
                                                read |-> "pending"]}
            /\ reads' = reads + 1
            /\ served' = IF kind = "refresh" THEN NullSnapshot ELSE served
            /\ UNCHANGED lastReturn
    /\ refreshed' = IF kind = "refresh" THEN NullSnapshot ELSE refreshed
    /\ channelsCache' = before.cache
    /\ lastCacheUpdate' = before.last
    /\ cacheOp' = kind
    /\ UNCHANGED << now, ticks, file, writes, lastGood >>
    /\ UNCHANGED << sessVars, proxyVars, parseVars >>

\* a query handler other than handleGetChannels calls getChannelsData
Get ==
    /\ getChannelsData("get", Kept)
    /\ UNCHANGED << cachedChannels, queries >>

\* handleGetChannels: served from the cache it sorts at once, else after the read
handleGetChannels(categoryId, sort) ==
    /\ getChannelsData("get", Kept)
    /\ IF CacheValid(channelsCache, lastCacheUpdate, now)
       THEN /\ cachedChannels' = SortInPlace(categoryId, sort, cachedChannels)
            /\ UNCHANGED queries
       ELSE /\ queries' = queries \cup {[id |-> calls + 1, categoryId |-> categoryId,
                                         sort |-> sort]}
            /\ UNCHANGED cachedChannels

handleRefreshChannels ==
    /\ getChannelsData("refresh", Invalidated)
    /\ cachedChannels' = <<>>
    /\ UNCHANGED queries

\* the rest of the handler of call c, run on the channels of what c returned
Resume(c, channels) ==
    LET q == {x \in queries : x.id = c.id}
    IN  /\ queries' = queries \ q
        /\ cachedChannels' = IF q = {} THEN channels
                             ELSE LET x == CHOOSE x \in q : TRUE
                                  IN  SortInPlace(x.categoryId, x.sort, channels)

\* readFile of call c reads live.json; the call resumes in a later step
readFile(c) ==
    /\ c \in inflight
    /\ c.read = "pending"
    /\ inflight' = (inflight \ {c}) \cup {[c EXCEPT !.read = file]}
    /\ cacheOp' = "readFile"
    /\ UNCHANGED << now, ticks, file, writes, channelsCache, lastCacheUpdate, calls,
                    reads, lastReturn, served, refreshed, lastGood,
                    cachedChannels, queries >>
    /\ UNCHANGED << sessVars, proxyVars, parseVars >>

\* readFile and JSON.parse of call c succeed: the cache is replaced
ReadOk(c) ==
    /\ c \in inflight
    /\ LET liveData == IF c.read = "pending" THEN file ELSE c.read
           categories == [by |-> c.id, kind |-> c.kind, at |-> c.now,
                          data |-> IF liveData = "nocats" THEN "empty" ELSE liveData]
       IN  /\ liveData # "broken"
           /\ channelsCache' = categories
           /\ refreshed' = IF c.kind = "refresh" THEN categories ELSE refreshed
           /\ lastGood' = categories
           /\ Resume(c, Catalog(categories.data))
           /\ lastCacheUpdate' = c.now
           /\ lastReturn' = [call |-> c.id, hit |-> FALSE, snap |-> categories]
    /\ inflight' = inflight \ {c}
    /\ cacheOp' = "readOk"
    /\ UNCHANGED << now, ticks, file, writes, calls, reads, served >>
    /\ UNCHANGED << sessVars, proxyVars, parseVars >>

ReadFailedCached(c) ==
    /\ c \in inflight
    /\ (IF c.read = "pending" THEN file ELSE c.read) = "broken"
    /\ lastReturn' = [call |-> c.id, hit |-> FALSE,
                      snap |-> IF channelsCache # NullSnapshot THEN channelsCache
                               ELSE EmptySnapshot]
    /\ channelsCache' = IF channelsCache # NullSnapshot THEN channelsCache
                        ELSE EmptySnapshot
    /\ lastCacheUpdate' = c.now
    /\ Resume(c, cachedChannels)
    /\ inflight' = inflight \ {c}
    /\ cacheOp' = "readFailed"
    /\ UNCHANGED << now, ticks, file, writes, calls, reads,
                    served, refreshed, lastGood >>
    /\ UNCHANGED << sessVars, proxyVars, parseVars >>

\* readFile or JSON.parse of call c raises: return channelsCache || []
ReadFailed(c) ==
    /\ c \in inflight
    /\ (IF c.read = "pending" THEN file ELSE c.read) = "broken"
    /\ lastReturn' = [call |-> c.id, hit |-> FALSE,
                      snap |-> IF channelsCache # NullSnapshot THEN channelsCache
                               ELSE EmptySnapshot]
    /\ Resume(c, cachedChannels)
    /\ inflight' = inflight \ {c}
    /\ cacheOp' = "readFailed"
    /\ UNCHANGED << now, ticks, file, writes, channelsCache, lastCacheUpdate, calls, reads,
                    served, refreshed, lastGood >>
    /\ UNCHANGED << sessVars, proxyVars, parseVars >>

Tick(d) ==
    /\ ticks < MaxTicks
    /\ ticks' = ticks + 1
    /\ now' = now + d
    /\ UNCHANGED << file, writes, channelsCache, lastCacheUpdate, inflight, calls,
                    reads, lastReturn, cacheOp, served, refreshed, lastGood,
                    cachedChannels, queries >>
    /\ UNCHANGED << sessVars, proxyVars, parseVars >>

\* live.json is rewritten
WriteFile(v) ==
    /\ v # file
    /\ writes < MaxWrites
    /\ writes' = writes + 1
    /\ file' = v
    /\ UNCHANGED << now, ticks, channelsCache, lastCacheUpdate, inflight, calls,
                    reads, lastReturn, cacheOp, served, refreshed, lastGood,
                    cachedChannels, queries >>
    /\ UNCHANGED << sessVars, proxyVars, parseVars >>

CacheNext ==
    \/ Get
    \/ handleRefreshChannels
    \/ \E c \in inflight : ReadOk(c)
    \/ \E c \in inflight : ReadFailed(c)
    \/ \E d \in {1, CACHE_TTL - 1} : Tick(d)
    \/ \E v \in Contents : WriteFile(v)

(***************************************************************************)
(* The proxy rewriters of the client (processChannelUrls of the channel    *)
(* list, processUrl of the player) and the secure-tunnel gateway route.    *)
(* In a URL given to them every piece of the path is one segment with its  *)
(* leading slash; "/" is an empty segment.                                 *)
(***************************************************************************)
NoUrl ==
    [prefix |-> "none", scheme |-> "", host |-> "", path |-> <<>>,
     search |-> "", parses |-> FALSE]

\* the URLs a catalog can give
TargetUrls ==
    { Url("https", "a.b",      << "/c" >>,               "?d=1", TRUE),
      Url("https", "A.B",      << "/live", "/1.m3u8" >>, "",     TRUE),
      Url("https", "a.b:443",  <<>>,                     "",     TRUE),
      Url("https", "c.d:8443", << "/x", "/" >>,          "?t=1", TRUE),
      Url("http",  "e.f",      << "/4.m3u8" >>,          "",     TRUE),
      Url("http",  "e.f:80",   <<>>,                     "?q=2", TRUE),
      Url("rtmp",  "g.h",      << "/s" >>,               "",     TRUE),
      Url("https", "",         << "/5" >>,               "",     FALSE),
      Url("http",  "",         <<>>,                     "",     FALSE) }

processChannelUrlsAnyPage(url) ==
    IF StartsWith(url, "https") /\ url.parses THEN Tunnel("/proxy", url) ELSE url

\* the callback processChannelUrls maps over channel.urls
processChannelUrls(url) ==
    IF pageProtocol = "http:"
    THEN (IF StartsWith(url, "https")
          THEN (IF url.parses THEN Tunnel("/proxy", url) ELSE url)
          ELSE url)
    ELSE url

Rewriting(t, l, p, op) ==
    /\ target' = t
    /\ listed' = l
    /\ played' = p
    /\ proxyOp' = op
    /\ UNCHANGED << request, upstream, answer, response >>
    /\ UNCHANGED << sessVars, cacheVars, parseVars >>

\* the channel list rewrites the URL of the channel that is picked
ListRewrite(u) == Rewriting(u, processChannelUrls(u), NoUrl, "list")

\* the player rewrites the URL the list handed over
PlayerRewrite ==
    /\ listed # NoUrl
    /\ played = NoUrl
    /\ Rewriting(target, listed, processUrl(listed), "player")

\* the player is opened with the catalog URL itself
PlayerDirect(u) == Rewriting(u, NoUrl, processUrl(u), "direct")

NoRequest == [method |-> "none", path |-> <<>>, search |-> "", headers |-> <<>>]
NoFetch == [method |-> "none", url |-> NoUrl, headers |-> <<>>]
NoResponse == [status |-> 0, headers |-> {}, body |-> "none"]
\* what the fetch of the request came to: nothing yet, a response with a
\* status, or a rejection (kind "rejected")
NoAnswer == [kind |-> "none", status |-> 0]
Answered(status) == [kind |-> "response", status |-> status]

\* the path segment of one "/segment" piece of a path of TargetUrls
Segment(piece) ==
    CHOOSE name \in {"", "c", "live", "1.m3u8", "x", "4.m3u8", "s", "5"} :
        "/" \o name = piece

\* params.path of the request for a tunnel path: the host, then the segments
\* of the path, split at "/"
Route(url) ==
    << url.host >> \o [k \in 1..Len(url.path) |-> Segment(url.path[k])]

\* the headers a client sends
ClientHeaders ==
    { <<>>,
      ("range" :> "bytes=0-") @@ ("cookie" :> "s=1"),
      ("accept" :> "*/*") @@ ("user-agent" :> "UA") @@ ("authorization" :> "t"),
      ("accept" :> "") @@ ("referer" :> "page") }

\* `https://${host}/${pathname}${search}`, pathname = path.slice(1).join('/')
TargetUrlWithoutSearch(path, search) ==
    Url("https", path[1],
        IF Tail(path) = <<>> THEN << "/" >>
        ELSE [k \in 1..Len(Tail(path)) |-> "/" \o Tail(path)[k]],
        "", path[1] # "")

TargetUrl(path, search) ==
    Url("https", path[1],
        IF Tail(path) = <<>> THEN << "/" >>
        ELSE [k \in 1..Len(Tail(path)) |-> "/" \o Tail(path)[k]],
        search, path[1] # "")

\* new URL(targetUrl).origin
Origin(url) == << url.scheme, HostOf(url.scheme, url.host) >>

\* ['range', 'accept', 'user-agent'].forEach: copied when get(key) is truthy
CopiedRequestHeaders(headers) ==
    LET keys == {k \in {"range", "accept", "user-agent"} \cap DOMAIN headers :
                    headers[k] # ""}
    IN  [k \in keys |-> headers[k]]

GetRequestHeaders(headers, url) ==
    CopiedRequestHeaders(headers) @@ ("Origin" :> Origin(url)) @@ ("Referer" :> Origin(url))

HeadRequestHeaders(headers, url) ==
    ("Origin" :> Origin(url)) @@ ("Referer" :> Origin(url))

GetResponseHeaders(from) ==
    (from \cap {"content-type", "content-length", "content-range", "accept-ranges",
                "cache-control", "last-modified", "etag"})
    \cup {"Access-Control-Allow-Origin", "Access-Control-Allow-Methods",
          "Access-Control-Allow-Headers", "Access-Control-Expose-Headers"}

HeadResponseHeaders(from) ==
    (from \cap {"content-type", "content-length", "accept-ranges", "cache-control",
                "last-modified", "etag"})
    \cup {"Access-Control-Allow-Origin", "Access-Control-Allow-Methods"}

\* new Response(body, {status}) raises for a body with one of these statuses
NullBodyStatus(status) == status \in {101, 204, 205, 304}

\* new Response(body, init) with no headers given: a text body brings its
\* content type, nothing else is set
PlainResponse(status, body) ==
    [status |-> status,
     headers |-> IF body = "text" THEN {"content-type"} ELSE {},
     body |-> body]

\* the catch of GET and of HEAD
CaughtResponse(method) ==
    PlainResponse(500, IF method = "GET" THEN "text" ELSE "null")

MissingPathAccepted(method) ==
    PlainResponse(200, IF method = "GET" THEN "text" ELSE "null")

\* new Response('Missing path', { status: 400 }) / new Response(null, { status: 400 })
MissingPathResponse(method) ==
    PlainResponse(400, IF method = "GET" THEN "text" ELSE "null")

Handled(req, up, ans, res, op) ==
    /\ request' = req
    /\ upstream' = up
    /\ answer' = ans
    /\ response' = res
    /\ proxyOp' = op
    /\ UNCHANGED << target, listed, played >>
    /\ UNCHANGED << sessVars, cacheVars, parseVars >>

\* GET and HEAD up to `await fetch`
Gateway(method, path, search, headers) ==
    /\ upstream = NoFetch
    /\ LET req == [method |-> method, path |-> path, search |-> search,
                   headers |-> headers]
           url == TargetUrl(path, search)
       \* if (!path || path.length === 0)
       IN  IF Len(path) = 0
           THEN Handled(req, NoFetch, NoAnswer, MissingPathResponse(method), "rejected")
           ELSE IF ~url.parses
           THEN Handled(req, NoFetch, NoAnswer, CaughtResponse(method), "caught")
           ELSE Handled(req,
                        [method |-> method, url |-> url,
                         headers |-> IF method = "GET"
                                     THEN GetRequestHeaders(headers, url)
                                     ELSE HeadRequestHeaders(headers, url)],
                        NoAnswer, NoResponse, "fetch")

\* the browser requests the tunnel path the player loads
GatewayPlayed(method, headers) ==
    /\ played.prefix = "/proxy"
    /\ Gateway(method, Route(played), played.search, headers)

\* fetch resolves: the rest of GET and of HEAD
FetchResolved(status, headers) ==
    /\ upstream # NoFetch
    /\ Handled(request, NoFetch, Answered(status),
               IF upstream.method = "HEAD"
               THEN [status |-> status, headers |-> HeadResponseHeaders(headers),
                     body |-> "null"]
               ELSE IF status \notin 200..299
               THEN (IF NullBodyStatus(status) THEN CaughtResponse("GET")
                     ELSE PlainResponse(status, "text"))
               ELSE [status |-> status, headers |-> GetResponseHeaders(headers),
                     body |-> "stream"],
               "resolved")

\* fetch rejects: the catch
FetchRejected ==
    /\ upstream # NoFetch
    /\ Handled(request, NoFetch, [kind |-> "rejected", status |-> 0],
               CaughtResponse(upstream.method),
               "rejected fetch")

OPTIONS ==
    /\ upstream = NoFetch
    /\ Handled([NoRequest EXCEPT !.method = "OPTIONS"], NoFetch, NoAnswer,
               [status |-> 200,
                headers |-> {"Access-Control-Allow-Origin", "Access-Control-Allow-Methods",
                             "Access-Control-Allow-Headers", "Access-Control-Max-Age"},
                body |-> "null"],
               "options")

ProxyInit ==
    /\ target = NoUrl
    /\ listed = NoUrl
    /\ played = NoUrl
    /\ request = NoRequest
    /\ upstream = NoFetch
    /\ answer = NoAnswer
    /\ response = NoResponse
    /\ proxyOp = "init"

ProxyNext ==
    \/ \E u \in TargetUrls : ListRewrite(u)
    \/ PlayerRewrite
    \/ \E u \in TargetUrls : PlayerDirect(u)
    \/ \E method \in {"GET", "HEAD"}, headers \in ClientHeaders :
            GatewayPlayed(method, headers)
    \/ \E method \in {"GET", "HEAD"}, headers \in ClientHeaders :
            Gateway(method, <<>>, "", headers)
    \* what an upstream can answer
    \/ \E status \in {200, 206, 304, 404, 502},
          headers \in { {}, {"content-type", "content-length", "set-cookie"},
                        {"content-type", "content-range", "accept-ranges"} } :
            FetchResolved(status, headers)
    \/ FetchRejected
    \/ OPTIONS

\* the query handlers over the cache, at one clock time
QueryNext ==
    \/ Get
    \/ \E categoryId \in {NoCategory, NewsCategory}, sort \in {"name", "category", "quality"} :
            handleGetChannels(categoryId, sort)
    \/ handleRefreshChannels
    \/ \E c \in inflight : ReadOk(c)
    \/ \E c \in inflight : ReadFailed(c)
    \/ \E v \in Contents : WriteFile(v)

(***************************************************************************)
(* The specifications: the session and the cache do not share state.       *)
(***************************************************************************)
(***************************************************************************)
(* LiveChannelParser.  A text is a sequence of lines, a line a sequence of  *)
(* pieces: a piece stands for a run of characters that the parser's string  *)
(* operations never cut.                                                    *)
(***************************************************************************)
\* the glyph a channel line must contain (U+2192)
Arrow == "->"
GenreMark == ",#genre#"
\* currentCategory before the first marker
Uncategorized == "uncategorized"
\* the keywords of detectQuality written in Chinese are spelled "gaoqing"
\* ('high definition') and "quangaoqing" ('full high definition')

RECURSIVE TrimStart(_)
TrimStart(s) == IF s # <<>> /\ Head(s) = " " THEN TrimStart(Tail(s)) ELSE s

RECURSIVE TrimEnd(_)
TrimEnd(s) ==
    IF s # <<>> /\ s[Len(s)] = " " THEN TrimEnd(SubSeq(s, 1, Len(s) - 1)) ELSE s

\* String.prototype.trim
Trim(s) == TrimEnd(TrimStart(s))

\* String.prototype.indexOf, counted from 1; 0 when there is none
IndexOf(s, piece) ==
    IF \E k \in 1..Len(s) : s[k] = piece
    THEN CHOOSE k \in 1..Len(s) : s[k] = piece /\ \A j \in 1..(k - 1) : s[j] # piece
    ELSE 0

\* s.substring(from) and s.substring(0, to), in pieces
From(s, from) == SubSeq(s, from, Len(s))
Before(s, to) == SubSeq(s, 1, to - 1)

\* String.prototype.toLowerCase, piece by piece
Lower(s) ==
    [k \in 1..Len(s) |->
        CASE s[k] = "HD" -> "hd"
          [] s[k] = "FHD" -> "fhd"
          [] s[k] = "1080P" -> "1080p"
          [] s[k] = ".M3U8" -> ".m3u8"
          [] s[k] = "HLS" -> "hls"
          [] s[k] = ".MPD" -> ".mpd"
          [] s[k] = "DASH" -> "dash"
          [] s[k] = ".FLV" -> ".flv"
          [] s[k] = "RTMP://" -> "rtmp://"
          [] OTHER -> s[k]]

\* the keywords that occur inside one piece
KeywordsIn(piece) ==
    {piece} \cup (IF piece = "fhd" THEN {"hd"}
                  ELSE IF piece = "quangaoqing" THEN {"gaoqing"}
                  ELSE {})

\* String.prototype.includes for a keyword
HasKeyword(s, keyword) == \E k \in 1..Len(s) : keyword \in KeywordsIn(s[k])

detectStreamFormatCaseSensitive(url) ==
    LET urlLower == url
    IN  IF HasKeyword(urlLower, ".m3u8") \/ HasKeyword(urlLower, "hls") THEN "HLS"
        ELSE IF HasKeyword(urlLower, ".mpd") \/ HasKeyword(urlLower, "dash") THEN "DASH"
        ELSE IF HasKeyword(urlLower, ".flv") THEN "FLV"
        ELSE IF urlLower # <<>> /\ urlLower[1] = "rtmp://" THEN "RTMP"
        ELSE "HLS"

\* detectStreamFormat
detectStreamFormat(url) ==
    LET urlLower == Lower(url)
    IN  IF HasKeyword(urlLower, ".m3u8") \/ HasKeyword(urlLower, "hls") THEN "HLS"
        ELSE IF HasKeyword(urlLower, ".mpd") \/ HasKeyword(urlLower, "dash") THEN "DASH"
        ELSE IF HasKeyword(urlLower, ".flv") THEN "FLV"
        ELSE IF urlLower # <<>> /\ urlLower[1] = "rtmp://" THEN "RTMP"
        ELSE "HLS"

\* detectQuality
detectQuality(name) ==
    LET nameLower == Lower(name)
    IN  IF HasKeyword(nameLower, "hd") \/ HasKeyword(nameLower, "gaoqing") THEN "HD"
        ELSE IF \/ HasKeyword(nameLower, "fhd")
                \/ HasKeyword(nameLower, "1080p")
                \/ HasKeyword(nameLower, "quangaoqing") THEN "FHD"
        ELSE "SD"

\* content.split('\n').map(line => line.trim()).filter(Boolean)
SplitLines(text) ==
    SelectSeq([k \in 1..Len(text) |-> Trim(text[k])], LAMBDA line : line # <<>>)

\* text.replace(/[^a-zA-Z0-9\u4e00-\u9fa5-]/g, '-'): every character that is
\* not a letter, a digit, a CJK character or a hyphen becomes a hyphen
Id(text) ==
    [k \in 1..Len(text) |->
        CASE text[k] \in {" ", ",", "#"} -> "-"
          [] text[k] = Arrow -> "--"
          [] text[k] = GenreMark -> "--genre-"
          [] OTHER -> text[k]]

\* the channel parseChineseTVFormat creates (96-106)
LiveChannel(category, name, url) ==
    [id |-> Id(category \o << "-" >> \o name),
     name |-> name, urls |-> << url >>, category |-> category,
     format |-> detectStreamFormat(url), quality |-> detectQuality(name)]

\* categories.has / categories.get / categories.set of the Map, which keeps
\* its keys in the order they were first set
MapHas(categories, key) == \E k \in 1..Len(categories) : categories[k].name = key

MapGet(categories, key) ==
    IF MapHas(categories, key)
    THEN categories[CHOOSE k \in 1..Len(categories) : categories[k].name = key].channels
    ELSE <<>>

MapSet(categories, key, channels) ==
    IF MapHas(categories, key)
    THEN [k \in 1..Len(categories) |->
            IF categories[k].name = key
            THEN [name |-> key, channels |-> channels] ELSE categories[k]]
    ELSE Append(categories, [name |-> key, channels |-> channels])

AddChannelUrlUnchecked(categories, currentCategory, channelName, channelUrl) ==
    LET categoryChannels == MapGet(categories, currentCategory)
        found == {k \in 1..Len(categoryChannels) :
                    categoryChannels[k].name = channelName}
    IN  MapSet(categories, currentCategory,
               IF found # {}
               THEN LET k == CHOOSE k \in found : \A j \in found : k <= j
                    IN  [categoryChannels EXCEPT
                            ![k].urls = Append(categoryChannels[k].urls, channelUrl)]
               ELSE Append(categoryChannels,
                           LiveChannel(currentCategory, channelName, channelUrl)))

\* lines 85-111: the URL joins the channel of that name, or a channel is made
AddChannelUrl(categories, currentCategory, channelName, channelUrl) ==
    LET categoryChannels == MapGet(categories, currentCategory)
        found == {k \in 1..Len(categoryChannels) :
                    categoryChannels[k].name = channelName}
    IN  MapSet(categories, currentCategory,
               IF found # {}
               THEN LET k == CHOOSE k \in found : \A j \in found : k <= j
                        existingChannel == categoryChannels[k]
                    IN  IF \E j \in 1..Len(existingChannel.urls) :
                                existingChannel.urls[j] = channelUrl
                        THEN categoryChannels
                        ELSE [categoryChannels EXCEPT
                                ![k].urls = Append(existingChannel.urls, channelUrl)]
               ELSE Append(categoryChannels,
                           LiveChannel(currentCategory, channelName, channelUrl)))

\* line.includes(',#genre#') and the category it names (60-61)
IsMarker(line) == IndexOf(line, GenreMark) # 0
\* replace(',#genre#', ''): the first occurrence goes
MarkerName(line) ==
    LET k == IndexOf(line, GenreMark)
    IN  Trim(Before(line, k) \o From(line, k + 1))

\* afterArrow (72-75), channelName and channelUrl (76-81) of a line
AfterArrow(line) == From(line, IndexOf(line, Arrow) + 1)
NameOf(line) == Trim(Before(AfterArrow(line), IndexOf(AfterArrow(line), ",")))
UrlOf(line) == Trim(From(AfterArrow(line), IndexOf(AfterArrow(line), ",") + 1))

IsChannelLineUnchecked(line) ==
    /\ line[1] # "#"
    /\ IndexOf(line, Arrow) # 0
    /\ IndexOf(AfterArrow(line), ",") # 0

\* a line that passes the tests of 69, 73, 78 and 83
IsChannelLine(line) ==
    /\ line[1] # "#"
    /\ IndexOf(line, Arrow) # 0
    /\ IndexOf(AfterArrow(line), ",") # 0
    /\ NameOf(line) # <<>>
    /\ UrlOf(line) # <<>>

\* the loop over the lines (58-112)
RECURSIVE ParseLines(_, _, _)
ParseLines(lines, categories, currentCategory) ==
    IF lines = <<>> THEN categories
    ELSE LET line == Head(lines)
         IN  IF IsMarker(line)
             THEN ParseLines(Tail(lines),
                             IF MapHas(categories, MarkerName(line)) THEN categories
                             ELSE MapSet(categories, MarkerName(line), <<>>),
                             MarkerName(line))
             ELSE IF IsChannelLine(line)
             THEN ParseLines(Tail(lines),
                             AddChannelUrl(categories, currentCategory,
                                           NameOf(line), UrlOf(line)),
                             currentCategory)
             ELSE ParseLines(Tail(lines), categories, currentCategory)

\* the rank of a piece of a name under localeCompare(_, 'zh-CN')
PieceRank(piece) ==
    CASE piece = " " -> 0
      [] piece = "x" -> 1
      [] piece = "y" -> 2
      [] OTHER -> 3

\* a.name.localeCompare(b.name, 'zh-CN') < 0
RECURSIVE NameBefore(_, _)
NameBefore(a, b) ==
    IF b = <<>> THEN FALSE
    ELSE IF a = <<>> THEN TRUE
    ELSE IF PieceRank(Head(a)) # PieceRank(Head(b))
         THEN PieceRank(Head(a)) < PieceRank(Head(b))
    ELSE NameBefore(Tail(a), Tail(b))

RECURSIVE SortByName(_)
InsertionOrder(channels) == channels

\* channels.sort(...): stable, by name
SortByName(channels) ==
    IF channels = <<>> THEN <<>>
    ELSE LET sorted == SortByName(SubSeq(channels, 1, Len(channels) - 1))
             last == channels[Len(channels)]
             k == Cardinality({j \in 1..Len(sorted) :
                                 ~NameBefore(last.name, sorted[j].name)})
         IN  SubSeq(sorted, 1, k) \o << last >> \o SubSeq(sorted, k + 1, Len(sorted))

\* the loop, then the conversion of the Map to the result (115-129)
parseChineseTVFormat(text) ==
    LET categories == ParseLines(SplitLines(text), <<>>, << Uncategorized >>)
        kept == SelectSeq(categories, LAMBDA entry : Len(entry.channels) > 0)
    IN  [k \in 1..Len(kept) |->
            [name |-> kept[k].name, channels |-> SortByName(kept[k].channels),
             sortOrder |-> k - 1]]

\* String.prototype.split(','): the runs between the commas
RECURSIVE Split(_)
Split(s) ==
    LET k == IndexOf(s, ",")
    IN  IF k = 0 THEN << s >> ELSE << Before(s, k) >> \o Split(From(s, k + 1))

\* Array.prototype.join(',')
RECURSIVE Join(_)
Join(parts) ==
    IF parts = <<>> THEN <<>>
    ELSE IF Len(parts) = 1 THEN parts[1]
    ELSE parts[1] \o << "," >> \o Join(Tail(parts))

\* line.startsWith('#')
StartsWithHash(line) == line # <<>> /\ line[1] \in {"#EXTM3U", "#EXTINF:", "#EXTGRP"}

\* the loop of parseM3U (11-45); i counts from 1
RECURSIVE ParseM3ULines(_, _, _)
ParseM3ULines(lines, i, items) ==
    IF i > Len(lines) THEN items
    ELSE LET line == lines[i]
             \* 19-24: the payload after '#EXTINF:' and its title
             info == From(line, 2)
             titleParts == Tail(Split(info))
             title == Trim(Join(titleParts))
             \* 35-36: name and url of a "Name,URL" line
             name == Head(Split(line))
             url == Join(Tail(Split(line)))
         IN  IF line[1] = "#EXTM3U" THEN ParseM3ULines(lines, i + 1, items)
             ELSE IF line[1] = "#EXTINF:"
             THEN (IF i + 1 <= Len(lines) /\ ~StartsWithHash(lines[i + 1])
                   THEN ParseM3ULines(lines, i + 2,
                                      Append(items, [name |-> title,
                                                     url |-> lines[i + 1]]))
                   ELSE ParseM3ULines(lines, i + 1, items))
             \* line.includes(',http')
             ELSE IF \E k \in 1..(Len(line) - 1) :
                        line[k] = "," /\ line[k + 1] \in {"http://a", "http://b"}
             THEN (IF name # <<>> /\ url # <<>>
                   THEN ParseM3ULines(lines, i + 1,
                                      Append(items, [name |-> Trim(name),
                                                     url |-> Trim(url)]))
                   ELSE ParseM3ULines(lines, i + 1, items))
             ELSE ParseM3ULines(lines, i + 1, items)

parseM3U(text) == ParseM3ULines(SplitLines(text), 1, <<>>)

\* the lines an M3U text is made of
M3ULines ==
    { << "#EXTM3U" >>,
      << "#EXTINF:", "-1", ",", "Channel A" >>,
      << "#EXTINF:", "-1", " ", "tvg", ",", "News", ",", " ", "Sports" >>,
      << "#EXTINF:", "-1" >>,
      << "#EXTGRP", "g" >>,
      << "#EXTGRP", "g", ",", "http://a" >>,
      << "http://a" >>,
      << "Name", " ", ",", "http://b" >>,
      << " " >> }

\* the lines a delimited catalog text is made of
DelimitedLines ==
    { << "A", GenreMark >>,
      << "B", GenreMark, " " >>,
      << "A", GenreMark, "x" >>,
      << "1", Arrow, "x", ",", "u1" >>,
      << Arrow, " ", "x", " ", ",", " ", "u2" >>,
      << Arrow, "y", " ", "HD", ",", "u1", ",", "u2" >>,
      << Arrow, "x", ",", " " >>,
      << Arrow, " ", ",", "u1" >>,
      << "#", Arrow, "y", ",", "u2" >>,
      << "x", ",", "u1" >>,
      << " " >> }

ParseInit ==
    /\ content = <<>>
    /\ parsed = [kind |-> "none"]
    /\ parseOp = "init"

\* one more line of delimited text
AppendDelimitedLine(line) ==
    /\ parseOp \in {"init", "txt"}
    /\ Len(content) < MaxLines
    /\ content' = Append(content, line)
    /\ parseOp' = "txt"
    /\ UNCHANGED parsed
    /\ UNCHANGED << sessVars, cacheVars, proxyVars >>

Returned(op, result) ==
    /\ parsed' = [kind |-> "returned", result |-> result]
    /\ parseOp' = op
    /\ UNCHANGED content
    /\ UNCHANGED << sessVars, cacheVars, proxyVars >>

ParseChineseTVFormat ==
    /\ parseOp \in {"init", "txt"}
    /\ Returned("parseChineseTVFormat", parseChineseTVFormat(content))

\* one more line of M3U text
AppendM3ULine(line) ==
    /\ parseOp \in {"init", "m3u"}
    /\ Len(content) < MaxLines
    /\ content' = Append(content, line)
    /\ parseOp' = "m3u"
    /\ UNCHANGED parsed
    /\ UNCHANGED << sessVars, cacheVars, proxyVars >>

\* parseM3U of the text so far, or of the text toM3U has just returned
ParseM3U ==
    /\ parseOp \in {"init", "m3u", "toM3U"}
    /\ IF parseOp = "toM3U"
       THEN Returned("toM3U;parseM3U", parseM3U(parsed.result))
       ELSE Returned("parseM3U", parseM3U(content))

\* JSON values: null, a number, a string, an object with string members, an
\* array; a text that JSON.parse rejects
JsonNull == [type |-> "null"]
JsonObject(members) == [type |-> "object", members |-> members]
JsonArray(items) == [type |-> "array", items |-> items]
Malformed == [type |-> "malformed"]

\* the value of a member that is absent
NoMember == "undefined"
\* the outcome of a block: it raised, or it returned these items
Raised == [raised |-> TRUE, items |-> <<>>]
Items(items) == [raised |-> FALSE, items |-> items]

\* item.key: raises on null, is undefined on a number, a string and an array
Member(item, key) ==
    IF item.type = "object" /\ key \in DOMAIN item.members THEN item.members[key]
    ELSE NoMember

\* a || b
OrElse(a, b) == IF a \in {"", NoMember} THEN b ELSE a

\* the try block of parseJSON (220-231)
ParseJsonBody(text) ==
    IF text = Malformed THEN Raised
    ELSE IF text.type = "array"
    THEN (IF \E k \in 1..Len(text.items) : text.items[k] = JsonNull THEN Raised
          \* the callback of data.map (223-228)
          ELSE Items([k \in 1..Len(text.items) |->
                    LET item == text.items[k]
                    IN  [name |-> OrElse(Member(item, "name"),
                                         OrElse(Member(item, "title"), "")),
                         url |-> OrElse(Member(item, "url"),
                                        OrElse(Member(item, "stream"), "")),
                         category |-> OrElse(Member(item, "category"),
                                             OrElse(Member(item, "group"), "")),
                         logo |-> OrElse(Member(item, "logo"),
                                         OrElse(Member(item, "icon"), NoMember))]]))
    ELSE Items(<<>>)

Uncaught(outcome) == outcome

\* catch { return []; }
Caught(outcome) == IF outcome.raised THEN Items(<<>>) ELSE outcome

parseJSON(text) == Caught(ParseJsonBody(text))

\* the texts parseJSON is given
JsonTexts ==
    { Malformed, JsonNull, [type |-> "number"], [type |-> "string"],
      JsonObject("categories" :> "x"),
      JsonArray(<<>>),
      JsonArray(<< JsonObject(("name" :> "A") @@ ("url" :> "u1")) >>),
      JsonArray(<< JsonObject(("title" :> "B") @@ ("stream" :> "u2")
                              @@ ("group" :> "g") @@ ("icon" :> "i")),
                   JsonObject(("name" :> "") @@ ("title" :> "C")) >>),
      JsonArray(<< JsonNull >>),
      JsonArray(<< JsonObject(("name" :> "A") @@ ("url" :> "u1")), JsonNull >>),
      JsonArray(<< [type |-> "number"], [type |-> "string"], JsonArray(<<>>) >>) }

\* the channel names detectQuality is given
QualityNames ==
    { << "CCTV1" >>,
      << "CCTV1", " ", "gaoqing" >>,
      << "CCTV1", " ", "1080p" >>,
      << "CCTV1", " ", "1080P" >>,
      << "CCTV1", " ", "FHD" >>,
      << "CCTV1", " ", "fhd" >>,
      << "CCTV1", " ", "quangaoqing" >>,
      << "CCTV1", " ", "HD" >>,
      << "CCTV1", " ", "HD", " ", "1080p" >> }

\* the URLs detectStreamFormat is given
FormatUrls ==
    { << "http://", "x", ".m3u8" >>,
      << "http://", "x", ".M3U8" >>,
      << "http://", "hls", "/", "x", ".mpd" >>,
      << "http://", "x", ".mpd" >>,
      << "http://", "x", ".MPD" >>,
      << "http://", "DASH", "/", "x", ".flv" >>,
      << "http://", "x", ".flv" >>,
      << "rtmp://", "x", ".flv" >>,
      << "rtmp://", "x" >>,
      << "RTMP://", "x" >>,
      << "http://", "x", "/", "rtmp://" >>,
      << "http://", "x", ".mp4" >>,
      <<>> }

\* a call of a function that takes one text: parseJSON, detectQuality,
\* detectStreamFormat
Called(op, text, result) ==
    /\ parseOp = "init"
    /\ content' = text
    /\ parsed' = [kind |-> "returned", result |-> result]
    /\ parseOp' = op
    /\ UNCHANGED << sessVars, cacheVars, proxyVars >>

ParseNext ==
    \/ \E line \in DelimitedLines : AppendDelimitedLine(line)
    \/ ParseChineseTVFormat
    \/ \E line \in M3ULines : AppendM3ULine(line)
    \/ ParseM3U
    \/ \E text \in JsonTexts : Called("parseJSON", text, parseJSON(text))
    \/ \E name \in QualityNames : Called("detectQuality", name, detectQuality(name))
    \/ \E url \in FormatUrls :
            Called("detectStreamFormat", url, detectStreamFormat(url))

\* toM3U (240-251): a text of lines, the empty ones included
RECURSIVE toM3U(_)
toM3U(categories) ==
    IF categories = <<>> THEN << << "#EXTM3U" >>, <<>> >>
    ELSE LET category == categories[Len(categories)]
             rest == toM3U(SubSeq(categories, 1, Len(categories) - 1))
             entry(ch) ==
                 << << "#EXTINF:", "-1", " tvg-name=\"" >> \o ch.name
                      \o << "\" group-title=\"" >> \o category.name
                      \o << "\"", "," >> \o ch.name,
                    ch.urls[1],
                    <<>> >>
             RECURSIVE entries(_)
             entries(channels) ==
                 IF channels = <<>> THEN <<>>
                 ELSE entry(Head(channels)) \o entries(Tail(channels))
         IN  rest \o entries(category.channels)

\* toJSON (256-271): JSON.stringify leaves out the logo, which is undefined
RECURSIVE toJSON(_)
toJSON(categories) ==
    IF categories = <<>> THEN JsonArray(<<>>)
    ELSE LET category == categories[Len(categories)]
             rest == toJSON(SubSeq(categories, 1, Len(categories) - 1))
         IN  JsonArray(rest.items \o
                 [k \in 1..Len(category.channels) |->
                     JsonObject(("name" :> category.channels[k].name)
                                @@ ("url" :> category.channels[k].urls[1])
                                @@ ("category" :> category.name))])

\* toM3U or toJSON of the catalog parseChineseTVFormat has just returned
Serialized(op, result) ==
    /\ parseOp = "parseChineseTVFormat"
    /\ Returned(op, result)

\* handleGetChannel: the first channel with the id, in the order of the
\* categories; << >> is the 404
RECURSIVE handleGetChannel(_, _)
handleGetChannel(categories, channelId) ==
    IF categories = <<>> THEN <<>>
    ELSE LET found == SelectSeq(Head(categories).channels,
                                LAMBDA ch : ch.id = channelId)
         IN  IF found # <<>> THEN << Head(found) >>
             ELSE handleGetChannel(Tail(categories), channelId)

\* handleChannelSelect of the live page with channel j of category i of the
\* catalog: the `urls` parameter of the address it navigates to, as
\* URLSearchParams writes it ("," as "%2C", "%" as "%25")
handleChannelSelect(i, j) ==
    /\ parseOp = "parseChineseTVFormat"
    /\ i \in 1..Len(parsed.result)
    /\ j \in 1..Len(parsed.result[i].channels)
    /\ LET ch == parsed.result[i].channels[j]
           urls == Join(ch.urls)
           encoded == [k \in 1..Len(urls) |->
                          CASE urls[k] = "," -> "%2C"
                            [] urls[k] = "%2C" -> "%252C"
                            [] OTHER -> urls[k]]
       IN  /\ parsed' = [kind |-> "returned", channel |-> ch, result |-> encoded]
           /\ parseOp' = "handleChannelSelect"
           /\ UNCHANGED content
           /\ UNCHANGED << sessVars, cacheVars, proxyVars >>

\* the URL parameter effect of the play page: searchParams.get('urls')
\* decodes the parameter, split(',') makes the list of the channel
ParseUrlParameters ==
    /\ parseOp = "handleChannelSelect"
    /\ LET decoded == [k \in 1..Len(parsed.result) |->
                          CASE parsed.result[k] = "%2C" -> ","
                            [] parsed.result[k] = "%252C" -> "%2C"
                            [] OTHER -> parsed.result[k]]
       IN  /\ parsed' = [parsed EXCEPT !.result = Split(decoded)]
           /\ parseOp' = "setChannel"
           /\ UNCHANGED content
           /\ UNCHANGED << sessVars, cacheVars, proxyVars >>

\* a catalog is parsed, serialized and, from M3U, parsed back, or one of its
\* channels is picked and handed to the play page
SerializeNext ==
    \/ \E line \in { << "A", GenreMark >>,
                      << "A", ",", "B", GenreMark >>,
                      << "1", Arrow, "x", ",", "u1" >>,
                      << Arrow, "y", " ", "HD", ",", "u1", ",", "u2" >>,
                      << Arrow, "y", "-", "HD", ",", "u2" >>,
                      << Arrow, " ", "x", " ", ",", " ", "u2" >> } :
            AppendDelimitedLine(line)
    \/ ParseChineseTVFormat
    \/ Serialized("toM3U", toM3U(parsed.result))
    \/ Serialized("toJSON", toJSON(parsed.result))
    \/ ParseM3U
    \/ \E i, j \in 1..MaxLines : handleChannelSelect(i, j)
    \/ ParseUrlParameters

SessionInit ==
    /\ pageProtocol \in {"http:", "https:"}
    /\ hlsSupported \in BOOLEAN
    /\ SessInit
    /\ CacheInit
    /\ ProxyInit
    /\ ParseInit
    /\ file = "v1"

SessionSpec == SessionInit /\ [][SessNext]_vars

\* the session driven by play, retry and the signals of the engine and of
\* the media element
SignalNext ==
    \/ \E c \in ChannelIds : PlayChannel(c)
    \/ handleRetry
    \/ \E a \in 1..MaxAttach : HlsManifestParsed(a)
    \/ \E a \in 1..MaxAttach, fatal \in BOOLEAN : HlsError(a, fatal)
    \/ VideoLoadedData
    \/ VideoError
    \/ PlayRejected
    \/ PlayStarted

SignalSpec == SessionInit /\ [][SignalNext]_vars

CacheSpecInit ==
    /\ pageProtocol = "http:"
    /\ hlsSupported = TRUE
    /\ SessInit
    /\ file \in {"v1", "broken"}
    /\ CacheInit
    /\ ProxyInit
    /\ ParseInit

CacheSpec == CacheSpecInit /\ [][CacheNext]_vars

QuerySpec == CacheSpecInit /\ [][QueryNext]_vars

\* getChannelsData alone: calls, the two ends of a read, the clock and the
\* file turning unreadable or readable again
ReloadNext ==
    \/ Get
    \/ \E c \in inflight : ReadOk(c)
    \/ \E c \in inflight : ReadFailed(c)
    \/ Tick(CACHE_TTL)
    \/ \E v \in {"v1", "broken"} : WriteFile(v)

ReloadSpec == CacheSpecInit /\ [][ReloadNext]_vars

\* calls and refreshes whose reads overlap while live.json is rewritten: a
\* read takes the content of the file at some moment before its call resumes
OverlapNext ==
    \/ Get
    \/ handleRefreshChannels
    \/ \E c \in inflight : readFile(c)
    \/ \E c \in inflight : ReadOk(c)
    \/ \E c \in inflight : ReadFailed(c)
    \/ \E v \in {"v1", "v2", "broken"} : WriteFile(v)

OverlapSpec == CacheSpecInit /\ [][OverlapNext]_vars

ProxySpecInit ==
    /\ pageProtocol \in {"http:", "https:"}
    /\ hlsSupported = TRUE
    /\ SessInit
    /\ file = "v1"
    /\ CacheInit
    /\ ProxyInit
    /\ ParseInit

ProxySpec == ProxySpecInit /\ [][ProxyNext]_vars

ParseSpecInit ==
    /\ pageProtocol = "http:"
    /\ hlsSupported = TRUE
    /\ SessInit
    /\ file = "v1"
    /\ CacheInit
    /\ ProxyInit
    /\ ParseInit

ParseSpec == ParseSpecInit /\ [][ParseNext]_vars

SerializeSpec == ParseSpecInit /\ [][SerializeNext]_vars

(***************************************************************************)
(* Claims about the playback session.                                      *)
(***************************************************************************)
\* C1: in every reachable state of a session at most one engine instance is
\* live (constructed and not yet destroyed).
C1_AtMostOneLiveEngine == Cardinality(LiveEngines(attaches)) <= 1

\* one retry() at the last index, begun with no engine live, leaves two
C1_TwoEnginesAfterRetry ==
    /\ lastOp = "retry"
    /\ Len(attachLog) = 2
    /\ attachLog[1].liveBefore = 0
    /\ Cardinality(LiveEngines(attaches)) = 2

\* C2: every retry() moves the current index i to (i+1) mod n, n the number of
\* candidate URLs of the channel, and retry() is available whenever the session
\* is in Error with a channel.
C2_RetryAdvancesModN ==
    [][/\ lastOp' = "retry" =>
            currentUrlIndex' = (currentUrlIndex + 1) % Len(Channels[channel])
       /\ (mounted /\ streamStatus = "error") => channel # NoChannel]_vars

\* C3: every attach that retry() or selectSource(i) begins, begins with no
\* engine of the session live: the previous engine is destroyed and its
\* reference cleared first.
C3_DetachBeforeAttach ==
    \A k \in 1..Len(attachLog) :
        attachLog[k].op \in {"retry", "select"} => attachLog[k].liveBefore = 0

\* the second attach of one retry() begins while the engine of its first is live
C3_RetryAttachesOverLiveEngine ==
    /\ lastOp = "retry"
    /\ Len(attachLog) = 2
    /\ attachLog[1].liveBefore = 0
    /\ attachLog[2].liveBefore = 1
    /\ attachLog[2].idx = 0

\* the signal of this step comes from attach a
SignalFrom(a) ==
    \/ lastOp' \in {"manifestParsed", "hlsFatal"} /\ attaches'[a].phase # attaches[a].phase
    \/ lastOp' \in {"loadeddata", "videoError"} /\ media = a
    \/ lastOp' \in {"playRejected", "playStarted"} /\ playPending = a

\* C4: a success or error signal of an attach that retry() or selectSource(i)
\* has superseded changes neither the state, nor the error message, nor the
\* loading flag.
C4_StaleSignalsIgnored ==
    [][\A a \in 1..Len(attaches) :
          (attaches[a].superseded = "user" /\ SignalFrom(a))
              => UNCHANGED << streamStatus, error, isLoading >>]_vars

\* C5: once the session is torn down no engine instance of it is live.
C5_NoEngineOutlivesSession == ~mounted => LiveEngines(attaches) = {}

Permitted(from, to, op) ==
    \/ from = to
    \/ << from, to >> \in { << "idle", "connecting" >>, << "connecting", "connected" >>,
                            << "connecting", "error" >>, << "connected", "error" >>,
                            << "error", "connecting" >>, << "error", "idle" >> }
    \/ to = "connecting" /\ op = "select"

\* C6: every change of the controller state is a permitted transition;
\* Connected is entered only from Connecting.
C6_PermittedTransitions ==
    [][\A k \in 1..Len(statusSets') :
          Permitted(IF k = 1 THEN streamStatus ELSE statusSets'[k - 1],
                    statusSets'[k], lastOp')]_vars

C8_PlayStartsAtZero ==
    lastOp = "play" =>
        /\ currentUrlIndex = 0
        /\ streamStatus = "connecting"
        /\ \A k \in 1..Len(attachLog) : attachLog[k].liveBefore = 0

(***************************************************************************)
(* Claims about the catalog cache.                                         *)
(***************************************************************************)
FiveMinutes == 5 * 60 * 1000

\* this step is a query handler's call of getChannelsData
GetStep == calls' = calls + 1 /\ cacheOp' = "get"

\* this step is a refresh: the cache is cleared and getChannelsData called
RefreshStep == calls' = calls + 1 /\ cacheOp' = "refresh"

\* C9: a get() less than 5 minutes after the load of a snapshot that an
\* earlier get() was served performs no reload and returns that same
\* snapshot; a get() when the stored snapshot's age is 5 minutes or more
\* attempts a reload.
C9_FreshGetsShareSnapshot ==
    [][GetStep =>
          /\ (served # NullSnapshot /\ now - served.at < FiveMinutes)
                => (reads' = reads /\ served'.data = served.data)
          /\ (channelsCache # NullSnapshot /\ now - channelsCache.at >= FiveMinutes)
                => reads' = reads + 1]_vars

\* C10: a refresh performs exactly one reload whatever the age of the
\* snapshot, and once that reload has succeeded a get() less than 5 minutes
\* after it performs none.
C10_RefreshReloadsOnce ==
    [][/\ RefreshStep =>
            /\ reads' = reads + 1
            /\ Cardinality(inflight') = Cardinality(inflight) + 1
       /\ (GetStep /\ refreshed # NullSnapshot /\ now - refreshed.at < FiveMinutes)
            => reads' = reads]_vars

\* C11: a get() whose reload fails returns the last successfully loaded
\* snapshot when there is one, also when a refresh forced the reload, and the
\* empty snapshot only when no load ever succeeded; it always returns a value.
C11_FailedReloadServesLastGood ==
    cacheOp = "readFailed" =>
        /\ lastReturn.snap # NullSnapshot
        /\ lastReturn.snap = IF lastGood # NullSnapshot THEN lastGood ELSE EmptySnapshot

\* C12: under any interleaving of get() callers and refresh requests at most
\* one reload of the catalog is in flight.
C12_SingleFlight == Cardinality(inflight) <= 1

\* C13: the cached snapshot is never mutated in place: the channels of its
\* category are, in content and order, the ones that were loaded.
C13_SnapshotNeverMutated ==
    channelsCache # NullSnapshot => cachedChannels = Catalog(channelsCache.data)


\* C14: the rewrite of a well-formed target is a three-way decision: on an
\* HTTP page an HTTPS target becomes the secure-prefix path with the target's
\* host, path and query; on an HTTPS page an HTTP target becomes the
\* plaintext-prefix path, whose prefix differs from the secure one; every
\* other target is the URL itself.
C14_ThreeWayRewrite ==
    (played # NoUrl /\ target.parses) =>
        IF pageProtocol = "http:" /\ target.scheme = "https"
        THEN /\ played.prefix = "/proxy"
             /\ played.host = NewURL(target).host
             /\ played.path = NewURL(target).pathname
             /\ played.search = target.search
        ELSE IF pageProtocol = "https:" /\ target.scheme = "http"
        THEN /\ played.prefix = "/httpproxy"
             /\ played.prefix # "/proxy"
             /\ played.host = NewURL(target).host
             /\ played.path = NewURL(target).pathname
             /\ played.search = target.search
        ELSE played = target

\* the player has put an HTTP target the list handed over behind the
\* plaintext prefix
C14_PlaintextTunnelled ==
    /\ proxyOp = "player"
    /\ listed = target
    /\ played.prefix = "/httpproxy"

\* C15: a target that starts with a rewritable scheme and does not parse as
\* a URL comes back from the rewrite unchanged, and the rewrite raises
\* nothing.
C15_MalformedUnchanged ==
    (played # NoUrl /\ ~target.parses /\ target.scheme \in {"http", "https"}) =>
        played = target

\* the list's rewriter has handed a malformed HTTPS target over unchanged
C15_ListKeepsMalformed ==
    /\ proxyOp = "list"
    /\ pageProtocol = "http:"
    /\ target.scheme = "https"
    /\ ~target.parses
    /\ listed = target


\* C16: a GET or HEAD request with no host segment is answered with a 4xx
\* status, and no upstream request is made for it.
C16_MissingHostRejected ==
    (request.method \in {"GET", "HEAD"} /\ Len(request.path) = 0) =>
        /\ response.status \in 400..499
        /\ upstream = NoFetch

\* a HEAD request without a host segment has been answered
C16_HeadWithoutHost ==
    /\ request.method = "HEAD"
    /\ Len(request.path) = 0
    /\ proxyOp = "rejected"
    /\ response.status = 400


\* C17: every response of the gateway carries Access-Control-Allow-Origin,
\* whatever the outcome and the method.
C17_EveryResponseHasCors ==
    response # NoResponse => "Access-Control-Allow-Origin" \in response.headers

\* a forwarded HEAD request has been answered with the CORS header
C17_ForwardedHeadHasCors ==
    /\ request.method = "HEAD"
    /\ proxyOp = "resolved"
    /\ "Access-Control-Allow-Origin" \in response.headers


\* C18: rewriting is reversible: the upstream URL the gateway builds for the
\* request of the secure-tunnel path of a well-formed HTTPS target is that
\* target, with the https scheme and the same host, path and query.
C18_RoundTrip ==
    [][(upstream = NoFetch /\ upstream' # NoFetch) =>
            /\ target.scheme = "https"
            /\ target.parses
            /\ upstream'.url.scheme = "https"
            /\ NewURL(upstream'.url) = NewURL(target)]_vars

\* the gateway is fetching the upstream of a target with a port, a path that
\* ends in "/" and a query
C18_FetchingPortAndQuery ==
    /\ upstream # NoFetch
    /\ target = Url("https", "c.d:8443", << "/x", "/" >>, "?t=1", TRUE)
    /\ upstream.url = target


\* C19: for GET and HEAD the headers of the upstream request are the
\* client's range, accept and user-agent headers, each one that the request
\* carries and nothing else of the client's, plus Origin and Referer set to
\* the upstream origin.
C19_ForwardsAllowList ==
    upstream # NoFetch =>
        LET allowed == {"range", "accept", "user-agent"} \cap DOMAIN request.headers
        IN  /\ DOMAIN upstream.headers = allowed \cup {"Origin", "Referer"}
            /\ \A k \in allowed : upstream.headers[k] = request.headers[k]
            /\ upstream.headers["Origin"] = Origin(upstream.url)
            /\ upstream.headers["Referer"] = Origin(upstream.url)

\* a GET with accept, user-agent and authorization is being forwarded with
\* accept and user-agent only
C19_GetForwardsAcceptAndAgent ==
    /\ upstream # NoFetch
    /\ request.method = "GET"
    /\ "authorization" \in DOMAIN request.headers
    /\ DOMAIN upstream.headers = {"accept", "user-agent", "Origin", "Referer"}


\* C20: a non-success status of the upstream is the status of the gateway's
\* response, and a fetch that fails at network level is answered with 500.
C20_ErrorStatuses ==
    /\ (answer.kind = "response" /\ answer.status \notin 200..299) =>
            response.status = answer.status
    /\ answer.kind = "rejected" => response.status = 500

\* a 404 of the upstream has been passed on for a GET
C20_NotFoundForwarded ==
    /\ request.method = "GET"
    /\ answer = Answered(404)
    /\ response.status = 404


\* the category a line falls into: that of the last marker before it
CategoryAt(lines, k) ==
    LET markers == {j \in 1..(k - 1) : IsMarker(lines[j])}
    IN  IF markers = {} THEN << Uncategorized >>
        ELSE MarkerName(lines[CHOOSE j \in markers : \A m \in markers : m <= j])

\* the channel lines of one name in one category
Occurrences(lines, category, name) ==
    {k \in 1..Len(lines) : /\ ~IsMarker(lines[k])
                           /\ IsChannelLine(lines[k])
                           /\ NameOf(lines[k]) = name
                           /\ CategoryAt(lines, k) = category}

FirstSeen(lines, occurrences, url) ==
    CHOOSE k \in occurrences :
        /\ UrlOf(lines[k]) = url
        /\ \A j \in occurrences : UrlOf(lines[j]) = url => k <= j

\* C21: for every channel line of the text, its category of the result has
\* exactly one channel of its name, and the URL list of that channel holds
\* each URL given for the name in the category once, in the order in which
\* the URLs first occur.
C21_RepeatedNameMerged ==
    parseOp = "parseChineseTVFormat" =>
        LET lines == SplitLines(content)
            result == parsed.result
        IN  \A k \in 1..Len(lines) :
                (~IsMarker(lines[k]) /\ IsChannelLine(lines[k])) =>
                    LET category == CategoryAt(lines, k)
                        name == NameOf(lines[k])
                        seen == Occurrences(lines, category, name)
                        cats == {i \in 1..Len(result) : result[i].name = category}
                    IN  /\ Cardinality(cats) = 1
                        /\ \A i \in cats :
                              LET chans == {j \in 1..Len(result[i].channels) :
                                              result[i].channels[j].name = name}
                              IN  /\ Cardinality(chans) = 1
                                  /\ \A j \in chans :
                                        LET urls == result[i].channels[j].urls
                                        IN  /\ {urls[m] : m \in 1..Len(urls)}
                                               = {UrlOf(lines[m]) : m \in seen}
                                            /\ \A m, n \in 1..Len(urls) :
                                                  m < n =>
                                                    FirstSeen(lines, seen, urls[m])
                                                    < FirstSeen(lines, seen, urls[n])

\* a name given three times in one category, the first URL again on the
\* third line: one channel with the two URLs
C21_ThreeLinesTwoUrls ==
    /\ parseOp = "parseChineseTVFormat"
    /\ content = << << "A", GenreMark >>,
                    << "1", Arrow, "x", ",", "u1" >>,
                    << Arrow, " ", "x", " ", ",", " ", "u2" >>,
                    << "1", Arrow, "x", ",", "u1" >> >>
    /\ Len(parsed.result) = 1
    /\ Len(parsed.result[1].channels) = 1
    /\ parsed.result[1].channels[1].urls = << << "u1" >>, << "u2" >> >>


\* C22: every channel of the result of parseChineseTVFormat has a name that
\* is not empty and a URL list that is not empty, holds no URL twice and
\* holds no empty URL.
C22_ChannelsWellFormed ==
    parseOp = "parseChineseTVFormat" =>
        \A i \in 1..Len(parsed.result) :
            \A j \in 1..Len(parsed.result[i].channels) :
                LET ch == parsed.result[i].channels[j]
                IN  /\ ch.name # <<>>
                    /\ ch.urls # <<>>
                    /\ \A m \in 1..Len(ch.urls) : ch.urls[m] # <<>>
                    /\ \A m, n \in 1..Len(ch.urls) : ch.urls[m] = ch.urls[n] => m = n

\* a text with a line without URL, a line without name and a channel line
\* has been parsed into one channel
C22_EmptyFieldsSkipped ==
    /\ parseOp = "parseChineseTVFormat"
    /\ content = << << Arrow, "x", ",", " " >>,
                    << Arrow, " ", ",", "u1" >>,
                    << "1", Arrow, "x", ",", "u1" >>,
                    << "1", Arrow, "x", ",", "u1" >> >>
    /\ Len(parsed.result) = 1
    /\ Len(parsed.result[1].channels) = 1
    /\ parsed.result[1].channels[1].urls = << << "u1" >> >>


\* the text after the last comma of a payload
AfterLastComma(info) ==
    LET commas == {k \in 1..Len(info) : info[k] = ","}
    IN  Trim(From(info, (CHOOSE k \in commas : \A j \in commas : j <= k) + 1))

\* C23: an #EXTINF line whose payload has a comma, followed by a line that
\* does not start with '#', gives an item whose name is the text after the
\* last comma of the payload and whose URL is the following line.
C23_TitleAfterLastComma ==
    parseOp = "parseM3U" =>
        LET lines == SplitLines(content)
        IN  \A k \in 1..(Len(lines) - 1) :
                (/\ lines[k][1] = "#EXTINF:"
                 /\ IndexOf(lines[k], ",") # 0
                 /\ ~StartsWithHash(lines[k + 1])) =>
                    \E m \in 1..Len(parsed.result) :
                        /\ parsed.result[m].url = lines[k + 1]
                        /\ parsed.result[m].name = AfterLastComma(From(lines[k], 2))

\* '#EXTM3U / #EXTINF:-1,Channel A / http://a' has given exactly the item
\* Channel A, http://a
C23_ChannelAExample ==
    /\ parseOp = "parseM3U"
    /\ content = << << "#EXTM3U" >>, << "#EXTINF:", "-1", ",", "Channel A" >>,
                    << "http://a" >> >>
    /\ parsed.result = << [name |-> << "Channel A" >>, url |-> << "http://a" >>] >>


\* C24: detectQuality gives FHD for a name that holds 'fhd', '1080p' or the
\* Chinese for 'full high definition' in any case; otherwise HD for a name
\* that holds 'hd' or the Chinese for 'high definition'; otherwise SD.
C24_FhdBeforeHd ==
    parseOp = "detectQuality" =>
        LET name == Lower(content)
        IN  parsed.result =
                IF \/ HasKeyword(name, "fhd")
                   \/ HasKeyword(name, "1080p")
                   \/ HasKeyword(name, "quangaoqing") THEN "FHD"
                ELSE IF HasKeyword(name, "hd") \/ HasKeyword(name, "gaoqing") THEN "HD"
                ELSE "SD"

\* 'CCTV1 1080p' has been classified FHD
C24_Name1080p ==
    /\ parseOp = "detectQuality"
    /\ content = << "CCTV1", " ", "1080p" >>
    /\ parsed.result = "FHD"

\* C25: detectStreamFormat, on the URL in lower case: HLS when it holds
\* '.m3u8' or 'hls'; else DASH when it holds '.mpd' or 'dash'; else FLV when
\* it holds '.flv'; else RTMP when it starts with 'rtmp://'; else HLS.
C25_FormatRulesInOrder ==
    parseOp = "detectStreamFormat" =>
        LET url == Lower(content)
            has(keyword) == \E k \in 1..Len(url) : keyword \in KeywordsIn(url[k])
        IN  /\ parsed.result \in {"HLS", "DASH", "FLV", "RTMP"}
            /\ (has(".m3u8") \/ has("hls")) => parsed.result = "HLS"
            /\ (~has(".m3u8") /\ ~has("hls") /\ (has(".mpd") \/ has("dash")))
                    => parsed.result = "DASH"
            /\ (~has(".m3u8") /\ ~has("hls") /\ ~has(".mpd") /\ ~has("dash")
                    /\ has(".flv")) => parsed.result = "FLV"
            /\ (~has(".m3u8") /\ ~has("hls") /\ ~has(".mpd") /\ ~has("dash")
                    /\ ~has(".flv")) =>
                    parsed.result = IF url # <<>> /\ Head(url) = "rtmp://"
                                    THEN "RTMP" ELSE "HLS"

\* a URL with '.MPD' in upper case has been classified DASH
C25_UpperCaseMpd ==
    /\ parseOp = "detectStreamFormat"
    /\ content = << "http://", "x", ".MPD" >>
    /\ parsed.result = "DASH"


\* C26: parseJSON raises nothing, whether the text is malformed, is not an
\* array or is an array with elements that are not objects; for a malformed
\* text (which is no array) and for a value that is not an array it returns
\* the empty list.
C26_ParseJsonNeverThrows ==
    parseOp = "parseJSON" =>
        /\ ~parsed.result.raised
        /\ content.type # "array" => parsed.result.items = <<>>

\* an array with an object and a null has been parsed without an exception
C26_ArrayWithNull ==
    /\ parseOp = "parseJSON"
    /\ content.type = "array"
    /\ \E k \in 1..Len(content.items) : content.items[k] = JsonNull
    /\ \E k \in 1..Len(content.items) : content.items[k].type = "object"
    /\ parsed.result = Items(<<>>)


\* C27: every attach begun by retry() or selectSource(i) loads the rewritten
\* candidate URL at the session's new current index, never the URL of the
\* index that was left.
C27_AttachUsesNewIndex ==
    lastOp \in {"retry", "select"} =>
        \A k \in 1..Len(attachLog) :
            /\ attachLog[k].idx = currentUrlIndex
            /\ attachLog[k].url = processUrl(Channels[channel][currentUrlIndex + 1])

\* selectSource(2) on the channel with three candidates has attached the
\* third URL
C27_SelectAttachesThird ==
    /\ lastOp = "select"
    /\ channel = "chA"
    /\ currentUrlIndex = 2
    /\ Len(attachLog) = 1
    /\ attachLog[1].idx = 2
    /\ attachLog[1].url = processUrl(Channels["chA"][3])


\* C28: a fatal engine error or a native media error that arrives while the
\* session is connecting or connected puts it into the error state with an
\* error message and with loading cleared; an engine error that is not fatal
\* changes neither the state nor the message.
C28_FatalErrorsSurface ==
    [][/\ (lastOp' \in {"hlsFatal", "videoError"}
           /\ streamStatus \in {"connecting", "connected"}) =>
                /\ streamStatus' = "error"
                /\ error' \notin {Null, ""}
                /\ isLoading' = FALSE
       /\ lastOp' = "hlsNonFatal" =>
                /\ streamStatus' = streamStatus
                /\ error' = error]_vars

\* the element's error event has put the session into the error state
C28_NativeErrorShown ==
    /\ lastOp = "videoError"
    /\ streamStatus = "error"
    /\ error = ErrNativeLoad
    /\ ~isLoading

\* C29: while the session has a channel, the current candidate index is at
\* least 0 and below the number of the channel's URLs.
C29_IndexInRange ==
    channel # NoChannel =>
        /\ 0 <= currentUrlIndex
        /\ currentUrlIndex < Len(Channels[channel])

\* retry at the last index has wrapped the index to 0
C29_RetryWraps ==
    /\ lastOp = "retry"
    /\ channel = "chA"
    /\ currentUrlIndex = 0
    /\ Len(attachLog) = 2


\* this step is the end of a read that failed
ReadFailedStep == cacheOp' = "readFailed" /\ inflight' # inflight

\* C30: a reload that fails changes neither the stored snapshot nor the load
\* timestamp, so a get() that follows it starts a reload again unless a
\* snapshot that was loaded less than 5 minutes ago is stored.
C30_FailureNotCached ==
    [][/\ ReadFailedStep =>
            /\ channelsCache' = channelsCache
            /\ lastCacheUpdate' = lastCacheUpdate
       /\ (cacheOp = "readFailed" /\ GetStep) =>
            \/ reads' = reads + 1
            \/ /\ lastReturn'.snap = lastGood
               /\ lastGood # NullSnapshot
               /\ now - lastGood.at < FiveMinutes]_vars

\* a reload has failed with nothing stored, and the get() after it has
\* started another reload
C30_ReloadAgainAfterFailure ==
    /\ cacheOp = "get"
    /\ channelsCache = NullSnapshot
    /\ lastReturn.call = 1
    /\ lastReturn.snap = EmptySnapshot
    /\ calls = 2
    /\ reads = 2
    /\ Cardinality(inflight) = 1


(***************************************************************************)
(* Claims about overlapping reloads of the catalog.                        *)
(***************************************************************************)
\* C31: when a refresh interleaves with a get() whose reload started before
\* the refresh, then once both have completed the cached snapshot is the one
\* the refresh's reload read, never the one the older reload read: a stale
\* reload does not overwrite a newer snapshot.
C31_StaleReloadNeverWins ==
    (refreshed # NullSnapshot /\ inflight = {}) => channelsCache.by >= refreshed.by

\* a get() that read "v1" resumed after the refresh that read "v2"
C31_OlderReloadResumedLast ==
    /\ inflight = {}
    /\ refreshed.kind = "refresh" /\ refreshed.data = "v2"
    /\ channelsCache.kind = "get" /\ channelsCache.by < refreshed.by
    /\ channelsCache.data = "v1"
    /\ cacheOp = "readOk"

(***************************************************************************)
(* Claims about the categories of the delimited catalog.                   *)
(***************************************************************************)
\* the line ends in the literal ',#genre#'
EndsInMarker(line) == line # <<>> /\ line[Len(line)] = GenreMark

\* the category that is active at line k when only the lines that end in the
\* marker open a category: the line with the suffix stripped
ActiveAt(lines, k) ==
    LET markers == {j \in 1..(k - 1) : EndsInMarker(lines[j])}
        last == CHOOSE j \in markers : \A m \in markers : m <= j
    IN  IF markers = {} THEN << Uncategorized >>
        ELSE Trim(Before(lines[last], Len(lines[last])))

\* C32: a line opens a category only if it ends in ',#genre#', the name being
\* the line without that suffix: every category of the result is the
\* uncategorized bucket or named by such a line, and every channel line is
\* found in the category opened by the last such line before it, in the
\* uncategorized bucket if there is none.
C32_MarkerOnlyAtEnd ==
    parseOp = "parseChineseTVFormat" =>
        LET lines == SplitLines(content)
            result == parsed.result
        IN  /\ \A i \in 1..Len(result) :
                  \/ result[i].name = << Uncategorized >>
                  \/ \E k \in 1..Len(lines) :
                        /\ EndsInMarker(lines[k])
                        /\ result[i].name = Trim(Before(lines[k], Len(lines[k])))
            /\ \A k \in 1..Len(lines) :
                  (~EndsInMarker(lines[k]) /\ IsChannelLine(lines[k])) =>
                      \E i \in 1..Len(result) :
                          /\ result[i].name = ActiveAt(lines, k)
                          /\ \E j \in 1..Len(result[i].channels) :
                                result[i].channels[j].name = NameOf(lines[k])

\* 'A,#genre#x' before a channel line: the channel is filed under 'Ax'
C32_MarkerInTheMiddle ==
    /\ parseOp = "parseChineseTVFormat"
    /\ content = << << "A", GenreMark, "x" >>, << "1", Arrow, "x", ",", "u1" >> >>
    /\ Len(parsed.result) = 1
    /\ parsed.result[1].name = << "A", "x" >>
    /\ Len(parsed.result[1].channels) = 1

\* the lines on which a category name is seen: its marker lines, and the
\* channel lines filed under it
SeenAt(lines, name) ==
    {k \in 1..Len(lines) :
        \/ IsMarker(lines[k]) /\ MarkerName(lines[k]) = name
        \/ ~IsMarker(lines[k]) /\ IsChannelLine(lines[k]) /\ CategoryAt(lines, k) = name}

FirstSeenAt(lines, name) ==
    CHOOSE k \in SeenAt(lines, name) : \A j \in SeenAt(lines, name) : k <= j

\* C33: the result lists the categories in the order in which their names
\* are first seen in the text, has no category without channels, has each
\* category name once, and has the channels of each category in the order of
\* their names.
C33_CategoriesInOrder ==
    parseOp = "parseChineseTVFormat" =>
        LET lines == SplitLines(content)
            result == parsed.result
        IN  \A i \in 1..Len(result) :
                /\ Len(result[i].channels) > 0
                /\ SeenAt(lines, result[i].name) # {}
                /\ \A j \in 1..Len(result) :
                      i < j => /\ result[i].name # result[j].name
                               /\ FirstSeenAt(lines, result[i].name)
                                  < FirstSeenAt(lines, result[j].name)
                /\ \A m, n \in 1..Len(result[i].channels) :
                      m < n => ~NameBefore(result[i].channels[n].name,
                                           result[i].channels[m].name)

\* category B is opened first and stays empty, 'y HD' is given before 'x' in
\* category A: the result is A alone, with x before 'y HD'
C33_EmptyDroppedAndSorted ==
    /\ parseOp = "parseChineseTVFormat"
    /\ content = << << "B", GenreMark, " " >>, << "A", GenreMark >>,
                    << Arrow, "y", " ", "HD", ",", "u1", ",", "u2" >>,
                    << "1", Arrow, "x", ",", "u1" >> >>
    /\ Len(parsed.result) = 1
    /\ parsed.result[1].name = << "A" >>
    /\ parsed.result[1].channels[1].name = << "x" >>
    /\ parsed.result[1].channels[2].name = << "y", " ", "HD" >>

(***************************************************************************)
(* Claims about the lines of an M3U text.                                  *)
(***************************************************************************)
\* line k is one that yields `item`: an #EXTINF line followed by a line that
\* does not start with '#', or a line that does not start with '#' and
\* contains ',http', its name the text before the first comma and its URL
\* the rest
Yields(lines, k, item) ==
    \/ /\ lines[k][1] = "#EXTINF:"
       /\ k + 1 <= Len(lines)
       /\ ~StartsWithHash(lines[k + 1])
       /\ item.name = Trim(Join(Tail(Split(From(lines[k], 2)))))
       /\ item.url = lines[k + 1]
    \/ /\ ~StartsWithHash(lines[k])
       /\ \E j \in 1..(Len(lines[k]) - 1) :
               lines[k][j] = "," /\ lines[k][j + 1] \in {"http://a", "http://b"}
       /\ item.name = Trim(Head(Split(lines[k])))
       /\ item.url = Trim(Join(Tail(Split(lines[k]))))

\* C34: the items of parseM3U come, in the order of the file, from #EXTINF
\* lines with their URL line and from lines that do not start with '#' and
\* contain ',http'; a line that starts with '#' and is not an #EXTINF line
\* yields no item.
C34_DirectLinesOnly ==
    parseOp = "parseM3U" =>
        LET lines == SplitLines(content)
            result == parsed.result
        IN  \E f \in [1..Len(result) -> 1..Len(lines)] :
                /\ \A i, j \in 1..Len(result) : i < j => f[i] < f[j]
                /\ \A i \in 1..Len(result) : Yields(lines, f[i], result[i])

\* '#EXTGRP:g,http://a' alone gives an item named '#EXTGRP:g'
C34_HashLineTaken ==
    /\ parseOp = "parseM3U"
    /\ content = << << "#EXTGRP", "g", ",", "http://a" >> >>
    /\ parsed.result = << [name |-> << "#EXTGRP", "g" >>, url |-> << "http://a" >>] >>

(***************************************************************************)
(* Claims about the serializers.                                           *)
(***************************************************************************)
\* the channels of a catalog in category-then-channel order, each with its
\* first URL
RECURSIVE FirstUrls(_)
FirstUrls(categories) ==
    IF categories = <<>> THEN <<>>
    ELSE [k \in 1..Len(Head(categories).channels) |->
             [name |-> Head(categories).channels[k].name,
              url |-> Head(categories).channels[k].urls[1]]]
         \o FirstUrls(Tail(categories))

\* C35: toM3U and toJSON emit one entry per channel, with the channel's name
\* and its first URL only, in category-then-channel order; parseM3U of the
\* text of toM3U gives, for every channel, one item with the channel's name
\* and first URL, in the same order.
C35_FirstUrlRoundTrip ==
    LET expected == FirstUrls(parseChineseTVFormat(content))
    IN  /\ parseOp = "toM3U" =>
              LET lines == SplitLines(parsed.result)
              IN  /\ Len(lines) = 1 + 2 * Len(expected)
                  /\ \A k \in 1..Len(expected) :
                        /\ lines[2 * k][1] = "#EXTINF:"
                        /\ From(lines[2 * k],
                                Len(lines[2 * k]) - Len(expected[k].name) + 1)
                           = expected[k].name
                        /\ lines[2 * k + 1] = expected[k].url
        /\ parseOp = "toJSON" =>
              /\ Len(parsed.result.items) = Len(expected)
              /\ \A k \in 1..Len(expected) :
                    /\ Member(parsed.result.items[k], "name") = expected[k].name
                    /\ Member(parsed.result.items[k], "url") = expected[k].url
        /\ parseOp = "toM3U;parseM3U" => parsed.result = expected

\* channel x of category 'A,B' comes back from M3U under another name
C35_CommaInCategory ==
    /\ parseOp = "toM3U;parseM3U"
    /\ content = << << "A", ",", "B", GenreMark >>, << "1", Arrow, "x", ",", "u1" >> >>
    /\ Len(parsed.result) = 1
    /\ parsed.result[1].url = << "u1" >>
    /\ parsed.result[1].name # << "x" >>

(***************************************************************************)
(* Claims about the channel ids.                                           *)
(***************************************************************************)
\* C36: the ids of the channels of the result hold only letters, digits, CJK
\* characters and hyphens; two channels that differ in category or name have
\* different ids, and the fetch by a channel's id returns that channel.
C36_IdsIdentifyChannels ==
    parseOp = "parseChineseTVFormat" =>
        LET result == parsed.result
            at == {p \in (1..Len(result)) \X (1..MaxLines) :
                      p[2] <= Len(result[p[1]].channels)}
            chan(p) == result[p[1]].channels[p[2]]
        IN  /\ \A p \in at : \A k \in 1..Len(chan(p).id) :
                  chan(p).id[k] \notin {" ", ",", "#", Arrow, GenreMark}
            /\ \A p, q \in at : p # q => chan(p).id # chan(q).id
            /\ \A p \in at : handleGetChannel(result, chan(p).id) = << chan(p) >>

\* 'y HD' and 'y-HD' of the same category both get the id that the fetch
\* answers with 'y HD'
C36_TwoNamesOneId ==
    /\ parseOp = "parseChineseTVFormat"
    /\ content = << << Arrow, "y", " ", "HD", ",", "u1", ",", "u2" >>,
                    << Arrow, "y", "-", "HD", ",", "u2" >> >>
    /\ Len(parsed.result[1].channels) = 2
    /\ parsed.result[1].channels[1].id = parsed.result[1].channels[2].id
    /\ parsed.result[1].channels[1].name # parsed.result[1].channels[2].name

(***************************************************************************)
(* Claims about the two rewriters in sequence.                             *)
(***************************************************************************)
\* C37: for a fixed page protocol the player's rewrite of what the channel
\* list's rewrite returned is what the player's rewrite alone makes of the
\* target; a URL the list has rewritten is returned unchanged; and a tunnel
\* path is the tunnel of the target itself, never of a tunnel path.
C37_RewriteIdempotent ==
    proxyOp = "player" =>
        /\ played = processUrl(target)
        /\ listed.prefix # "" => played = listed
        /\ played.prefix \in {"/proxy", "/httpproxy"} =>
              /\ target.prefix = ""
              /\ played = Tunnel(played.prefix, target)

\* the player has returned the secure tunnel path of the list as it is
C37_TunnelPathKept ==
    /\ proxyOp = "player"
    /\ pageProtocol = "http:"
    /\ target.scheme = "https"
    /\ listed.prefix = "/proxy"
    /\ played = listed

(***************************************************************************)
(* Claims about the hand-over of a channel to the play page.               *)
(***************************************************************************)
\* C38: the URL list the play page sets for the channel is the URL list of
\* the channel that was picked: as many URLs, the same URLs, in the same
\* order, also when a URL contains a comma.
C38_UrlListHandedOver ==
    parseOp = "setChannel" => parsed.result = parsed.channel.urls

\* a channel whose one URL is 'u1,u2' reaches the play page with two URLs
C38_CommaSplitsUrl ==
    /\ parseOp = "setChannel"
    /\ parsed.channel.urls = << << "u1", ",", "u2" >> >>
    /\ parsed.result = << << "u1" >>, << "u2" >> >>

====
